---------------------------- MODULE Spec2Model ----------------------------
(***************************************************************************)
(* Model of figures/heatmap-articles-research-question/main.py: the        *)
(* script that reads the rq*.txt files of the working directory, tallies   *)
(* in how many files each article identifier occurs, and builds the        *)
(* article x research-question presence matrix drawn as a heatmap.         *)
(*                                                                         *)
(* Text is modelled as sequences of one-character strings, so that         *)
(* strip(), split(), upper(), slicing and int() are computed character by  *)
(* character as Python computes them.                                      *)
(***************************************************************************)
EXTENDS Integers, Sequences, FiniteSets, TLC

VARIABLES fs, pc, arquivos, idx, referencias_por_arquivo,
          referencias_por_amostra, todas_referencias, df, exception,
          figsize, previous

vars == <<fs, pc, arquivos, idx, referencias_por_arquivo,
          referencias_por_amostra, todas_referencias, df, exception,
          figsize, previous>>

(***************************************************************************)
(* Bounds and input pools                                                  *)
(***************************************************************************)
MaxFiles == 2

A0001 == <<"A", "0", "0", "0", "1">>
A0002 == <<"A", "0", "0", "0", "2">>
B0001 == <<"B", "0", "0", "0", "1">>
N10001 == <<"1", "0", "0", "0", "1">>
Am002 == <<"A", "-", "0", "0", "2">>
A1 == <<"A", "1">>
A2 == <<"A", "2">>

rq1_txt == <<"r", "q", "1", ".", "t", "x", "t">>
rq2_txt == <<"r", "q", "2", ".", "t", "x", "t">>
rq01_txt == <<"r", "q", "0", "1", ".", "t", "x", "t">>
rq1_v2_txt == <<"r", "q", "1", ".", "v", "2", ".", "t", "x", "t">>
rqx_txt == <<"r", "q", "x", ".", "t", "x", "t">>
RQ3_txt == <<"R", "Q", "3", ".", "t", "x", "t">>

RQ1 == <<"R", "Q", "1">>
RQ2 == <<"R", "Q", "2">>

Line(text) == text \o <<"\n">>

NamePool == {rq1_txt, rq2_txt, rq01_txt, rq1_v2_txt, rqx_txt, RQ3_txt}

ContentPool ==
  { <<Line(A0001), Line(A0002)>>,
    <<Line(A0002)>>,
    <<Line(A1), Line(A2)>>,
    <<Line(A2)>>,
    << <<" ">> \o A0001 \o <<" ", "\n">>, <<"\n">>, Line(A0001), B0001 >>,
    <<Line(N10001), <<" ", "\t", "\n">>, Line(Am002)>> }

FileSystems ==
  UNION { [N -> ContentPool] :
            N \in {S \in SUBSET NamePool : Cardinality(S) <= MaxFiles} }

(***************************************************************************)
(* Python text primitives                                                  *)
(***************************************************************************)
Whitespace == {" ", "\t", "\n", "\r", "\f"}

Digits == <<"0", "1", "2", "3", "4", "5", "6", "7", "8", "9">>

LowerLetters == <<"a", "b", "c", "d", "e", "f", "g", "h", "i", "j", "k", "l",
                  "m", "n", "o", "p", "q", "r", "s", "t", "u", "v", "w", "x",
                  "y", "z">>

UpperLetters == <<"A", "B", "C", "D", "E", "F", "G", "H", "I", "J", "K", "L",
                  "M", "N", "O", "P", "Q", "R", "S", "T", "U", "V", "W", "X",
                  "Y", "Z">>

Range(s) == {s[i] : i \in DOMAIN s}

RECURSIVE lstrip(_)
lstrip(s) ==
  IF s = <<>> THEN s
  ELSE IF Head(s) \in Whitespace THEN lstrip(Tail(s)) ELSE s

RECURSIVE rstrip(_)
rstrip(s) ==
  IF s = <<>> THEN s
  ELSE IF s[Len(s)] \in Whitespace THEN rstrip(SubSeq(s, 1, Len(s) - 1))
       ELSE s

\* str.strip()
strip(s) == rstrip(lstrip(s))

UpperChar(c) ==
  IF \E i \in DOMAIN LowerLetters : LowerLetters[i] = c
  THEN UpperLetters[CHOOSE i \in DOMAIN LowerLetters : LowerLetters[i] = c]
  ELSE c

\* str.upper()
upper(s) == [i \in 1..Len(s) |-> UpperChar(s[i])]

OccursAt(s, sep, i) ==
  /\ i + Len(sep) - 1 <= Len(s)
  /\ SubSeq(s, i, i + Len(sep) - 1) = sep

\* str.split(sep) with a non-empty separator
RECURSIVE split(_, _)
split(s, sep) ==
  IF \E i \in 1..Len(s) : OccursAt(s, sep, i)
  THEN LET i == CHOOSE k \in 1..Len(s) :
                  /\ OccursAt(s, sep, k)
                  /\ \A j \in 1..(k - 1) : ~OccursAt(s, sep, j)
       IN <<SubSeq(s, 1, i - 1)>>
            \o split(SubSeq(s, i + Len(sep), Len(s)), sep)
  ELSE <<s>>

\* x[-4:]
Last4(s) == SubSeq(s, IF Len(s) > 4 THEN Len(s) - 3 ELSE 1, Len(s))

IsDigit(c) == \E i \in DOMAIN Digits : Digits[i] = c

DigitVal(c) == (CHOOSE i \in DOMAIN Digits : Digits[i] = c) - 1

Unsigned(s) ==
  IF s # <<>> /\ Head(s) \in {"+", "-"} THEN Tail(s) ELSE s

\* the literals int() accepts in base 10: optional surrounding whitespace,
\* optional sign, digits with single underscores between digits
IntOk(s) ==
  LET d == Unsigned(strip(s))
  IN /\ d # <<>>
     /\ IsDigit(d[1])
     /\ IsDigit(d[Len(d)])
     /\ \A i \in 1..Len(d) : IsDigit(d[i]) \/ d[i] = "_"
     /\ \A i \in 1..(Len(d) - 1) : ~(d[i] = "_" /\ d[i + 1] = "_")

RECURSIVE Magnitude(_)
Magnitude(d) ==
  IF d = <<>> THEN 0
  ELSE IF d[Len(d)] = "_" THEN Magnitude(SubSeq(d, 1, Len(d) - 1))
       ELSE 10 * Magnitude(SubSeq(d, 1, Len(d) - 1)) + DigitVal(d[Len(d)])

\* int(s), for a literal int() accepts
IntVal(s) ==
  LET t == strip(s)
  IN IF Head(t) = "-" THEN 0 - Magnitude(Unsigned(t))
     ELSE Magnitude(Unsigned(t))

\* variant: the pattern matched without regard to case
GlobMatchAnyCase(name) ==
  /\ Len(name) >= 6
  /\ upper(SubSeq(name, 1, 2)) = <<"R", "Q">>
  /\ upper(SubSeq(name, Len(name) - 3, Len(name))) = <<".", "T", "X", "T">>

\* fnmatch of the pattern "rq*.txt" (case-sensitive)
GlobMatch(name) ==
  /\ Len(name) >= 6
  /\ SubSeq(name, 1, 2) = <<"r", "q">>
  /\ SubSeq(name, Len(name) - 3, Len(name)) = <<".", "t", "x", "t">>

(***************************************************************************)
(* Python containers                                                       *)
(***************************************************************************)
\* the orders in which a set can be iterated
Orderings(S) ==
  LET n == Cardinality(S)
  IN {s \in [1..n -> S] : \A i, j \in 1..n : i # j => s[i] # s[j]}

\* dicts keep insertion order: a dict is a sequence of <<key, value>>
DictHas(d, k) == \E i \in DOMAIN d : d[i][1] = k

DictGet(d, k, default) ==
  IF DictHas(d, k) THEN d[CHOOSE i \in DOMAIN d : d[i][1] = k][2]
  ELSE default

DictSet(d, k, v) ==
  IF DictHas(d, k)
  THEN [i \in DOMAIN d |-> IF d[i][1] = k THEN <<k, v>> ELSE d[i]]
  ELSE Append(d, <<k, v>>)

DictKeys(d) == [i \in DOMAIN d |-> d[i][1]]

\* tuple comparison of two sort keys of the same length
KeyLess(a, b) ==
  \E i \in 1..Len(a) : /\ \A j \in 1..(i - 1) : a[j] = b[j]
                       /\ a[i] < b[i]

\* variant: the same sort with reverse=True
sortedDescending(items, keys) ==
  LET n == Len(items)
      rank == [i \in 1..n |->
                 Cardinality({j \in 1..n :
                                \/ KeyLess(keys[i], keys[j])
                                \/ (keys[j] = keys[i] /\ j < i)}) + 1]
  IN [p \in 1..n |-> items[CHOOSE i \in 1..n : rank[i] = p]]

\* sorted(items, key=...): stable, ascending; keys[i] is the key of items[i]
sorted(items, keys) ==
  LET n == Len(items)
      rank == [i \in 1..n |->
                 Cardinality({j \in 1..n :
                                \/ KeyLess(keys[j], keys[i])
                                \/ (keys[j] = keys[i] /\ j < i)}) + 1]
  IN [p \in 1..n |-> items[CHOOSE i \in 1..n : rank[i] = p]]

(***************************************************************************)
(* The script                                                              *)
(***************************************************************************)
\* variant: blank lines dropped, but the kept lines not stripped
ParseLinesUnstripped(lines) ==
  {lines[i] : i \in {j \in DOMAIN lines : strip(lines[j]) # <<>>}}

\* {linha.strip() for linha in f if linha.strip()}
ParseLines(lines) ==
  {strip(lines[i]) : i \in {j \in DOMAIN lines : strip(lines[j]) # <<>>}}

\* arquivo.split('.')[0].upper()
FileKey(arquivo) == upper(split(arquivo, <<".">>)[1])

\* variant: the count set to 1 instead of incremented
IncrementFromZero(tally, referencia) == DictSet(tally, referencia, 1)

\* referencias_por_amostra[referencia] = referencias_por_amostra.get(referencia, 0) + 1
Increment(tally, referencia) ==
  DictSet(tally, referencia, DictGet(tally, referencia, 0) + 1)

\* for referencia in referencias: ... (in the iteration order of the set)
RECURSIVE TallyAll(_, _)
TallyAll(tally, order) ==
  IF order = <<>> THEN tally
  ELSE TallyAll(Increment(tally, Head(order)), Tail(order))

\* variant: the components of the key swapped
RowKeySuffixFirst(x) == <<IntVal(Last4(x[1])), x[2]>>

\* lambda x: (x[1], int(x[0][-4:]))
RowKey(x) == <<x[2], IntVal(Last4(x[1]))>>

RowKeyOk(x) == IntOk(Last4(x[1]))

\* lambda x: int(x.split('RQ')[1])
ColumnKeyOk(x) ==
  /\ Len(split(x, <<"R", "Q">>)) >= 2
  /\ IntOk(split(x, <<"R", "Q">>)[2])

ColumnKey(x) == <<IntVal(split(x, <<"R", "Q">>)[2])>>

NoFrame == [built |-> FALSE, index |-> <<>>, columns |-> <<>>, at |-> <<>>]

NoRun == [ran |-> FALSE, outcome |-> "", index |-> <<>>, columns |-> <<>>]

Init ==
  /\ fs \in FileSystems
  /\ pc = "discover"
  /\ arquivos = <<>>
  /\ idx = 1
  /\ referencias_por_arquivo = <<>>
  /\ referencias_por_amostra = <<>>
  /\ todas_referencias = <<>>
  /\ df = NoFrame
  /\ exception = "none"
  /\ figsize = <<0, 0>>
  /\ previous = NoRun

\* glob.glob("rq*.txt"): the matching names, in the order the directory
\* happens to enumerate them
Discover ==
  /\ pc = "discover"
  /\ \E order \in Orderings({n \in DOMAIN fs : GlobMatch(n)}) :
        /\ arquivos' = order
        /\ pc' = IF order = <<>> THEN "sort" ELSE "read"
  /\ UNCHANGED <<fs, idx, referencias_por_arquivo, referencias_por_amostra,
                 todas_referencias, df, exception, figsize, previous>>

\* one iteration of the loop over arquivos
ReadFile ==
  /\ pc = "read"
  /\ LET arquivo == arquivos[idx]
         referencias == ParseLines(fs[arquivo])
         key == FileKey(arquivo)
     IN /\ referencias_por_arquivo' =
             DictSet(referencias_por_arquivo, key, referencias)
        /\ \E order \in Orderings(referencias) :
             referencias_por_amostra' = TallyAll(referencias_por_amostra, order)
  /\ idx' = idx + 1
  /\ pc' = IF idx = Len(arquivos) THEN "sort" ELSE "read"
  /\ UNCHANGED <<fs, arquivos, todas_referencias, df, exception, figsize,
                 previous>>

\* variant: an identifier int() rejects makes the sort keep the tally's order
SortRowsFallback ==
  /\ pc = "sort"
  /\ LET items == referencias_por_amostra
     IN /\ todas_referencias' =
             IF \E i \in DOMAIN items : ~RowKeyOk(items[i])
             THEN DictKeys(items)
             ELSE DictKeys(sorted(items, [i \in DOMAIN items |-> RowKey(items[i])]))
        /\ pc' = "build"
  /\ UNCHANGED <<fs, arquivos, idx, referencias_por_arquivo,
                 referencias_por_amostra, df, exception, figsize, previous>>

\* todas_referencias: the tally's items sorted by (count, int(last four))
SortRows ==
  /\ pc = "sort"
  /\ LET items == referencias_por_amostra
     IN IF \E i \in DOMAIN items : ~RowKeyOk(items[i])
        THEN /\ todas_referencias' = items
             /\ exception' = "ValueError in row sort"
             /\ pc' = "error"
        ELSE /\ LET keys == [i \in DOMAIN items |-> RowKey(items[i])]
                IN todas_referencias' = DictKeys(sorted(items, keys))
             /\ exception' = exception
             /\ pc' = "build"
  /\ UNCHANGED <<fs, arquivos, idx, referencias_por_arquivo,
                 referencias_por_amostra, df, figsize, previous>>

\* df = pd.DataFrame(0, index=todas_referencias, columns=sorted(keys, ...))
BuildMatrix ==
  /\ pc = "build"
  /\ LET keys == DictKeys(referencias_por_arquivo)
     IN IF \E i \in DOMAIN keys : ~ColumnKeyOk(keys[i])
        THEN /\ df' = df
             /\ exception' = "ValueError in column sort"
             /\ pc' = "error"
        ELSE LET columns == sorted(keys, [i \in DOMAIN keys |-> ColumnKey(keys[i])])
             IN /\ df' = [built |-> TRUE,
                          index |-> todas_referencias,
                          columns |-> columns,
                          at |-> [c \in Range(todas_referencias) \X Range(columns) |-> 0]]
                /\ exception' = exception
                /\ pc' = "fill"
  /\ UNCHANGED <<fs, arquivos, idx, referencias_por_arquivo,
                 referencias_por_amostra, todas_referencias, figsize, previous>>

\* for arquivo, referencias in ...items(): for ref in referencias: df.at[ref, arquivo] = 1
FillMatrix ==
  /\ pc = "fill"
  /\ df' = [df EXCEPT !.at =
              [c \in DOMAIN df.at |->
                 IF \E i \in DOMAIN referencias_por_arquivo :
                      /\ referencias_por_arquivo[i][1] = c[2]
                      /\ c[1] \in referencias_por_arquivo[i][2]
                 THEN 1 ELSE df.at[c]]]
  /\ pc' = "render"
  /\ UNCHANGED <<fs, arquivos, idx, referencias_por_arquivo,
                 referencias_por_amostra, todas_referencias, exception,
                 figsize, previous>>

Larger(a, b) == IF a >= b THEN a ELSE b

\* the figure, sized from the matrix (in quarter inches: 0.25 per row,
\* 0.5 per column, at least 6 x 4 inches), drawn and shown
Render ==
  /\ pc = "render"
  /\ figsize' = <<Larger(24, 2 * Len(df.columns)), Larger(16, Len(df.index))>>
  /\ pc' = "done"
  /\ UNCHANGED <<fs, arquivos, idx, referencias_por_arquivo,
                 referencias_por_amostra, todas_referencias, df, exception,
                 previous>>

\* once the figure has been shown, the script is run a second time in the
\* same, unchanged directory
Rerun ==
  /\ pc = "done"
  /\ ~previous.ran
  /\ previous' = [ran |-> TRUE, outcome |-> pc,
                  index |-> df.index, columns |-> df.columns]
  /\ pc' = "discover"
  /\ arquivos' = <<>>
  /\ idx' = 1
  /\ referencias_por_arquivo' = <<>>
  /\ referencias_por_amostra' = <<>>
  /\ todas_referencias' = <<>>
  /\ df' = NoFrame
  /\ exception' = "none"
  /\ figsize' = <<0, 0>>
  /\ UNCHANGED fs

Next ==
  \/ Discover
  \/ ReadFile
  \/ SortRows
  \/ BuildMatrix
  \/ FillMatrix
  \/ Render
  \/ Rerun

Spec == Init /\ [][Next]_vars

(***************************************************************************)
(* Properties                                                              *)
(***************************************************************************)
\* the trimmed text of a line, as a set (empty for a blank line): what lies
\* between its first and its last character that is not whitespace
Trimmed(l) ==
  LET solid == {i \in 1..Len(l) : l[i] \notin Whitespace}
  IN IF solid = {} THEN {}
     ELSE {SubSeq(l, CHOOSE i \in solid : \A j \in solid : i <= j,
                     CHOOSE i \in solid : \A j \in solid : i >= j)}

\* the trimmed texts of the non-blank lines of the file named f
IdentifiersIn(f) == UNION {Trimmed(fs[f][k]) : k \in DOMAIN fs[f]}

\* the file named f has a line whose trimmed text is ident
Contains(f, ident) == ident \in IdentifiersIn(f)

\* the name has the prefix "rq" and the extension ".txt"
MatchesPattern(n) ==
  \E m \in 0..Len(n) :
     /\ Len(n) = m + 6
     /\ n[1] = "r" /\ n[2] = "q"
     /\ n[m + 3] = "." /\ n[m + 4] = "t" /\ n[m + 5] = "x" /\ n[m + 6] = "t"

Discovered == Range(arquivos)

MatrixComplete == pc \in {"render", "done"}

\* in how many discovered files the identifier occurs
FileCount(ident) == Cardinality({f \in Discovered : Contains(f, ident)})

\* C1: in the completed matrix the cell (i, key(f)) of every discovered file
\* f and every row i is 1 exactly when i is an identifier of f
C1_CellsMatchFiles ==
  MatrixComplete =>
    \A f \in Discovered : \A i \in Range(df.index) :
       (df.at[<<i, FileKey(f)>>] = 1) <=> Contains(f, i)

NoDuplicates(s) == \A p, q \in DOMAIN s : p # q => s[p] # s[q]

\* C2: the rows of the matrix are exactly the distinct trimmed non-blank
\* lines of the discovered files, each once
C2_RowsAreTheIdentifiers ==
  df.built =>
    /\ NoDuplicates(df.index)
    /\ Range(df.index) = UNION {IdentifiersIn(f) : f \in Discovered}

C2_Witness ==
  /\ pc = "done"
  /\ Len(df.index) >= 3
  /\ \E f \in Discovered :
        /\ \E k \in DOMAIN fs[f] : Trimmed(fs[f][k]) = {}
        /\ \E k, m \in DOMAIN fs[f] :
              k # m /\ Trimmed(fs[f][k]) = Trimmed(fs[f][m]) /\ fs[f][k] # fs[f][m]

PairLeq(a, b) == a[1] < b[1] \/ (a[1] = b[1] /\ a[2] <= b[2])

RECURSIVE TrailingDigits(_)
TrailingDigits(s) ==
  IF s = <<>> \/ ~IsDigit(s[Len(s)]) THEN <<>>
  ELSE Append(TrailingDigits(SubSeq(s, 1, Len(s) - 1)), s[Len(s)])

\* the number an identifier ends in
TrailingNumber(s) == Magnitude(TrailingDigits(s))

\* C3 as stated: rows ascend by (number of files containing the identifier,
\* the number the identifier ends in)
C3_RowsByTrailingNumber ==
  df.built =>
    \A p, q \in DOMAIN df.index :
       p < q => PairLeq(<<FileCount(df.index[p]), TrailingNumber(df.index[p])>>,
                        <<FileCount(df.index[q]), TrailingNumber(df.index[q])>>)

\* C3 amended: rows ascend by (number of files containing the identifier,
\* integer value of the identifier's last four characters)
C3_RowsByLastFour ==
  df.built =>
    LET ids == [f \in Discovered |-> IdentifiersIn(f)]
        key == [p \in DOMAIN df.index |->
                  <<Cardinality({f \in Discovered : df.index[p] \in ids[f]}),
                    IntVal(Last4(df.index[p]))>>]
    IN \A p, q \in DOMAIN df.index : p < q => PairLeq(key[p], key[q])

C3_Witness ==
  /\ pc = "done"
  /\ \E p, q \in DOMAIN df.index :
        /\ p < q
        /\ FileCount(df.index[p]) < FileCount(df.index[q])
        /\ IntVal(Last4(df.index[p])) > IntVal(Last4(df.index[q]))
  /\ \E p, q \in DOMAIN df.index :
        /\ p < q
        /\ FileCount(df.index[p]) = FileCount(df.index[q])
        /\ IntVal(Last4(df.index[p])) < IntVal(Last4(df.index[q]))

\* C4: a second run on the same directory yields the same row sequence
C4_RowOrderReproducible ==
  (previous.ran /\ previous.outcome = "done" /\ pc = "done") =>
     df.index = previous.index

\* C5: the columns ascend by the number after RQ, and a second run on the
\* same directory yields the same column sequence
C5_ColumnOrder ==
  /\ df.built =>
       \A p, q \in DOMAIN df.columns :
          p < q => ColumnKey(df.columns[p])[1] <= ColumnKey(df.columns[q])[1]
  /\ (previous.ran /\ previous.outcome = "done" /\ pc = "done") =>
       df.columns = previous.columns

ExampleShort == (rq1_txt :> <<Line(A1), Line(A2)>>) @@ (rq2_txt :> <<Line(A2)>>)

ExampleFourDigit ==
  (rq1_txt :> <<Line(A0001), Line(A0002)>>) @@ (rq2_txt :> <<Line(A0002)>>)

ExampleMatrix(first, second) ==
  /\ df.built
  /\ df.index = <<first, second>>
  /\ df.columns = <<RQ1, RQ2>>
  /\ df.at[<<first, RQ1>>] = 1 /\ df.at[<<first, RQ2>>] = 0
  /\ df.at[<<second, RQ1>>] = 1 /\ df.at[<<second, RQ2>>] = 1

\* C6 as stated: on rq1.txt = A1, A2 and rq2.txt = A2 the run completes with
\* rows A1, A2, columns RQ1, RQ2 and cells A1 -> (1, 0), A2 -> (1, 1)
C6_ExampleCompletes ==
  (fs = ExampleShort /\ pc \in {"done", "error"}) =>
     (pc = "done" /\ ExampleMatrix(A1, A2))

\* C6 amended: with the identifiers A0001, A0002 in place of A1, A2 the run
\* completes with rows A0001, A0002, columns RQ1, RQ2 and cells
\* A0001 -> (1, 0), A0002 -> (1, 1); with A1, A2 it ends in the row sort's
\* error, after tallying A1 once and A2 twice, and builds no matrix
C6_Example ==
  /\ (fs = ExampleFourDigit /\ pc \in {"done", "error"}) =>
        (pc = "done" /\ ExampleMatrix(A0001, A0002))
  /\ (fs = ExampleFourDigit /\ pc = "sort") =>
        (DictGet(referencias_por_amostra, A0001, 0) = 1
           /\ DictGet(referencias_por_amostra, A0002, 0) = 2)
  /\ (fs = ExampleShort /\ pc \in {"done", "error"}) =>
        /\ pc = "error"
        /\ exception = "ValueError in row sort"
        /\ ~df.built
        /\ DictGet(referencias_por_amostra, A1, 0) = 1
        /\ DictGet(referencias_por_amostra, A2, 0) = 2

C6_Witness == fs = ExampleFourDigit /\ pc = "done" /\ ExampleMatrix(A0001, A0002)

Processed == {arquivos[k] : k \in 1..(idx - 1)}

\* C7: after any prefix of the discovered files (between two iterations of
\* the file loop, and after the last) the tally holds, for each identifier of
\* a processed file, the number of processed files containing it, and
\* nothing else
C7_TallyCountsFiles ==
  pc \in {"read", "sort"} =>
  LET ids == [f \in Processed |-> IdentifiersIn(f)]
  IN /\ NoDuplicates(DictKeys(referencias_por_amostra))
     /\ \A i \in DOMAIN referencias_por_amostra :
           /\ referencias_por_amostra[i][2] >= 1
           /\ referencias_por_amostra[i][2] =
                Cardinality({f \in Processed : referencias_por_amostra[i][1] \in ids[f]})
     /\ \A f \in Processed : \A t \in ids[f] : DictHas(referencias_por_amostra, t)

C7_Witness ==
  /\ pc = "read"
  /\ idx = 2
  /\ \E k, m \in DOMAIN fs[arquivos[1]] :
        k # m /\ Trimmed(fs[arquivos[1]][k]) = Trimmed(fs[arquivos[1]][m])
              /\ Trimmed(fs[arquivos[1]][k]) # {}
  /\ \E i \in DOMAIN referencias_por_amostra :
        Contains(arquivos[2], referencias_por_amostra[i][1])

NoMatchingFile == \A n \in DOMAIN fs : ~MatchesPattern(n)

\* C8: with no file matching rq*.txt the run raises no error and the matrix
\* it builds has no row and no column
C8_EmptyDiscovery ==
  NoMatchingFile =>
    /\ pc # "error"
    /\ exception = "none"
    /\ pc \in {"fill", "render", "done"} =>
          (df.built /\ df.index = <<>> /\ df.columns = <<>>)

C8_Witness == NoMatchingFile /\ DOMAIN fs # {} /\ pc = "done" /\ df.built

\* some line of some matching file trims to an identifier whose last four
\* characters int() rejects
UnparseableIdentifier ==
  \E n \in DOMAIN fs :
     /\ MatchesPattern(n)
     /\ \E t \in IdentifiersIn(n) : ~IntOk(Last4(t))

\* C9: the run gets past the row sort only if there is no such identifier:
\* with one it ends in the row sort's error, with no matrix built and no
\* figure drawn
C9_UnparseableSuffixAborts ==
  \/ /\ pc \in {"discover", "read", "sort", "error"}
     /\ ~df.built
     /\ figsize = <<0, 0>>
     /\ pc = "error" => exception = "ValueError in row sort"
  \/ ~UnparseableIdentifier

C9_Witness ==
  /\ pc = "error"
  /\ exception = "ValueError in row sort"
  /\ \E i, j \in DOMAIN referencias_por_amostra :
        /\ IntOk(Last4(referencias_por_amostra[i][1]))
        /\ ~IntOk(Last4(referencias_por_amostra[j][1]))

\* C10: in the completed matrix every row has as many 1-cells as its tally,
\* and there are as many columns as discovered files
C10_RowSumsAndColumnCount ==
  MatrixComplete =>
    /\ \A r \in Range(df.index) :
          Cardinality({c \in Range(df.columns) : df.at[<<r, c>>] = 1})
            = DictGet(referencias_por_amostra, r, 0)
    /\ Len(df.columns) = Len(arquivos)

=============================================================================
